---- MODULE Spec2Model ----
(***************************************************************************)
(* log-etw: a `log` backend that turns log records into ETW / user_events  *)
(* trace events.  The model covers                                          *)
(*   - the process-wide provider registry PROVIDER_CACHE and               *)
(*     EtwEventHeaderLogger::get_or_create_provider (src/src/logger.rs),   *)
(*   - the Log handlers `enabled` and `log` (src/src/logger.rs),           *)
(*   - ProviderWrapper::write_record, the record-to-event encoder          *)
(*     (src/src/etw.rs, src/src/user_events.rs).                           *)
(* The specifications share the state:                                     *)
(*   Spec         threads running get_or_create_provider step by step     *)
(*                under the ShardedLock;                                   *)
(*   SpecFair     the same under fair scheduling and a writer-fair lock;   *)
(*   SpecLog      whole `log` / `enabled` handler calls, one after the     *)
(*                other, with a trace session that comes and goes;         *)
(*   SpecEnc      one `log` call on every record shape and configuration;  *)
(*   SpecInstall  ExporterBuilder::install calls and the log calls that    *)
(*                follow them;                                             *)
(*   SpecSets     the handlers on the event-set backend;                   *)
(*   SpecThreads  threads running `log` step by step, registry and         *)
(*                encoder together;                                        *)
(*   SpecNested   the same, with write_record split at the record's user  *)
(*                code, which may call `log` again on the same thread.     *)
(***************************************************************************)
EXTENDS Integers, Sequences, FiniteSets, TLC

\* ------------------------------------------------------------------ bounds
NThreads == 2
MaxKv == 2
MaxCalls == 3

Threads == 1..NThreads

\* ------------------------------------------------------------------ names
DefaultName == "App"
Targets == {"", "App", "Real"}

\* Guid::from_name(name): a hash of the name; distinct names give distinct ids.
GuidFromName(name) == <<"from_name", name>>
CustomGuid == <<"custom", "G">>

GroupUnset == "Unset"
GroupSet == "Group"
\* ProviderGroup::Windows(Guid::zero()).
GroupZero == "Zeroes"
\* ProviderGroup::Linux(name), with a name the backend accepts and one it does not.
GroupLinux == "Linux:grp1"
GroupLinuxBad == "Linux:Bad Group"
ProviderGroups == {GroupUnset, GroupSet, GroupZero, GroupLinux, GroupLinuxBad}

\* ExporterConfig as ExporterBuilder::install builds it.
ExporterConfig(name, id, group, json, cs) ==
  [default_provider_name |-> name, default_provider_id |-> id,
   default_provider_group |-> group, json |-> json, common_schema |-> cs]

\* The crate features the encoder is compiled with.
Build(kv, kvjson, spans) ==
  [kv_unstable |-> kv, kv_unstable_json |-> kvjson, spans |-> spans]

VARIABLES
  cfg,      \* the installed logger's ExporterConfig
  build,    \* the crate features of this build
  cache,    \* PROVIDER_CACHE: provider name -> provider (NoProvider when absent)
  created,  \* per name, how many times ProviderWrapper::new ran (registrations)
  lockW,    \* the thread holding the ShardedLock write guard, 0 when free
  lockR,    \* the threads holding a read guard
  pc,       \* where each thread is in get_or_create_provider
  target,   \* each thread's target_provider_name
  prov,     \* the provider get_or_create_provider returned to each thread
  session,  \* the level the trace session enables providers at, 0 when none
  eb,       \* each thread's EBW, the thread-local EventBuilder: its fields
  last,     \* what the latest handler call did: its inputs and what reached the sink
  max_level,  \* the log facade's global maximum level
  installing, \* the latest ExporterBuilder::install call: its builder and how it ended
  sets,     \* per provider name, the (level, keyword) event-sets registered for it
  cur,      \* each thread's log call in progress: its number, record and keyword
  sink,     \* the events the threads' step-by-step log calls handed to the sink, in order
  borrow    \* each thread's EBW RefCell: "held" while a RefMut of it is alive, else "free"

vars == <<cfg, build, cache, created, lockW, lockR, pc, target, prov, session, eb, last,
          max_level, installing, sets, cur, sink, borrow>>

NoProvider == [name |-> "", id |-> <<>>, group |-> "", serial |-> 0]

\* ProviderWrapper::new: a new provider, registered with the OS; serial tells
\* two providers of one name apart.
ProviderWrapperNew(name, id, group, serial) ==
  [name |-> name, id |-> id, group |-> group, serial |-> serial]

\* get_or_create_provider: the name its read path looks up.
ReadPathName(tgt, c) ==
  IF tgt = "" THEN tgt ELSE c.default_provider_name

\* create_provider: the (name, id, group) it registers under.
CreateIdentity(tgt, c) ==
  IF tgt # ""
    THEN [name |-> tgt, id |-> GuidFromName(tgt), group |-> GroupUnset]
    ELSE [name |-> c.default_provider_name, id |-> c.default_provider_id,
          group |-> c.default_provider_group]

\* get_provider: the lookup under the read guard.
GetProvider(ch, name) == ch[name]

\* create_provider without the second lookup under the write guard.
CreateProviderNoRecheck(ch, cr, tgt, c) ==
  LET idn == CreateIdentity(tgt, c)
      p == ProviderWrapperNew(idn.name, idn.id, idn.group, cr[idn.name] + 1)
  IN [cache |-> [ch EXCEPT ![idn.name] = p],
      created |-> [cr EXCEPT ![idn.name] = @ + 1],
      prov |-> p]

\* create_provider keeping only the entry it inserts.
CreateProviderEvicting(ch, cr, tgt, c) ==
  LET idn == CreateIdentity(tgt, c)
  IN IF ch[idn.name] # NoProvider
       THEN [cache |-> ch, created |-> cr, prov |-> ch[idn.name]]
       ELSE LET p == ProviderWrapperNew(idn.name, idn.id, idn.group, cr[idn.name] + 1)
            IN [cache |-> [n \in DOMAIN ch |-> IF n = idn.name THEN p ELSE NoProvider],
                created |-> [cr EXCEPT ![idn.name] = @ + 1],
                prov |-> p]

\* create_provider, the part under the write guard: look again, insert if absent.
CreateProvider(ch, cr, tgt, c) ==
  LET idn == CreateIdentity(tgt, c)
  IN IF ch[idn.name] # NoProvider
       THEN [cache |-> ch, created |-> cr, prov |-> ch[idn.name]]
       ELSE LET p == ProviderWrapperNew(idn.name, idn.id, idn.group, cr[idn.name] + 1)
            IN [cache |-> [ch EXCEPT ![idn.name] = p],
                created |-> [cr EXCEPT ![idn.name] = @ + 1],
                prov |-> p]

\* get_or_create_provider run without interruption.
GetOrCreateProvider(ch, cr, tgt, c) ==
  LET hit == GetProvider(ch, ReadPathName(tgt, c))
  IN IF hit # NoProvider
       THEN [cache |-> ch, created |-> cr, prov |-> hit]
       ELSE CreateProvider(ch, cr, tgt, c)


\* ------------------------------------------------------------------ levels
FacadeLevels == <<"Error", "Warn", "Info", "Debug", "Trace">>
Levels == {FacadeLevels[i] : i \in 1..Len(FacadeLevels)}

\* tracelogging::Level::as_int.
TraceloggingLevel ==
  [Error |-> 2, Warning |-> 3, Informational |-> 4, Verbose |-> 5]

\* map_level with Trace given Debug's native value.
MapLevelCollapsed(level) ==
  CASE level = "Error" -> TraceloggingLevel.Error
    [] level = "Warn" -> TraceloggingLevel.Warning
    [] level = "Info" -> TraceloggingLevel.Informational
    [] level = "Debug" -> TraceloggingLevel.Verbose
    [] level = "Trace" -> TraceloggingLevel.Verbose

\* map_level.
MapLevel(level) ==
  CASE level = "Error" -> TraceloggingLevel.Error
    [] level = "Warn" -> TraceloggingLevel.Warning
    [] level = "Info" -> TraceloggingLevel.Informational
    [] level = "Debug" -> TraceloggingLevel.Verbose
    [] level = "Trace" -> TraceloggingLevel.Verbose + 1

\* log::Level as u8, the facade's ordinal.
LevelOrdinal(level) == CHOOSE i \in 1..Len(FacadeLevels) : FacadeLevels[i] = level

\* ------------------------------------------------------------------ session
\* The trace session: the level it enables every registered provider at (0: no
\* listener) and the keywords it asks for.
SessionLevels == {0, TraceloggingLevel.Informational, TraceloggingLevel.Verbose + 1}
SessionKeywords == {1}
Keywords == {0, 1, 2}

\* ProviderWrapper::enabled: the provider's subscription state for (level, keyword).
ProviderEnabled(p, level, keyword, sess) ==
  /\ p # NoProvider
  /\ sess # 0
  /\ level <= sess
  /\ (keyword = 0 \/ keyword \in SessionKeywords)

\* ------------------------------------------------------------------ records
None == "None"
ValueKinds ==
  {"any", "bool", "borrowed_str", "str", "char", "f64", "i128", "u128", "u64", "i64", "err"}
KeyNames == <<"k1", "k2", "k3", "k4">>

\* A log::Record: level, message arguments, key-values in iteration order (the
\* key and the kind of its value; "err" is a value whose visit reports an error),
\* and the optional module path, file and line.
Record(level, args, kvs, module_path, file, line) ==
  [level |-> level, args |-> args, kvs |-> kvs,
   module_path |-> module_path, file |-> file, line |-> line]

Kv(key, kind) == [key |-> key, kind |-> kind]

\* format!("{}", record.args()): the template with its argument put in.
Format(args) == <<args.template, args.arg>>

\* ------------------------------------------------------------------ fields
\* One add_* call on the EventBuilder: the field's name, its in and out type,
\* its text where the model follows it, and for add_struct the declared count.
Field(name, type, out, text) ==
  [name |-> name, type |-> type, out |-> out, count |-> 0, text |-> text]
Struct(name, count) ==
  [name |-> name, type |-> "struct", out |-> "", count |-> count, text |-> <<>>]

\* ValueVisitor: the field one visited value is written as; none when the visit
\* reports an error before reaching a visit method.
ValueVisitor(key, kind) ==
  CASE kind = "any" -> <<Field(key, "str8", "String", <<>>)>>
    [] kind = "bool" -> <<Field(key, "bool32", "Boolean", <<>>)>>
    [] kind = "borrowed_str" -> <<Field(key, "str8", "String", <<>>)>>
    [] kind = "str" -> <<Field(key, "str8", "String", <<>>)>>
    [] kind = "char" -> <<Field(key, "u8", "String", <<>>)>>
    [] kind = "f64" -> <<Field(key, "f64", "Signed", <<>>)>>
    [] kind = "i128" -> <<Field(key, "u64_sequence", "Hex", <<>>)>>
    [] kind = "u128" -> <<Field(key, "u64_sequence", "Hex", <<>>)>>
    [] kind = "u64" -> <<Field(key, "u64", "Unsigned", <<>>)>>
    [] kind = "i64" -> <<Field(key, "i64", "Signed", <<>>)>>
    [] kind = "err" -> <<>>

RECURSIVE VisitStopAtError(_)
\* record.key_values().visit with a visit_pair that passes the value's error on:
\* the source stops at the first failing key.
VisitStopAtError(kvs) ==
  IF kvs = <<>> \/ Head(kvs).kind = "err" THEN <<>>
  ELSE ValueVisitor(Head(kvs).key, Head(kvs).kind) \o VisitStopAtError(Tail(kvs))

RECURSIVE KvVisitor(_)
\* record.key_values().visit(&mut KvVisitor): visit_pair on every key in order;
\* visit_pair drops the value's result and returns Ok, so the source goes on.
KvVisitor(kvs) ==
  IF kvs = <<>> THEN <<>>
  ELSE ValueVisitor(Head(kvs).key, Head(kvs).kind) \o KvVisitor(Tail(kvs))

\* serde_json::to_string(&source::as_map(record.key_values())): Ok with the
\* object text, which is "{}" for no key-values; Err when a value fails.
JsonOk(kvs) == \A i \in 1..Len(kvs) : kvs[i].kind # "err"
JsonText(kvs) == <<"{">> \o [i \in 1..Len(kvs) |-> kvs[i].key] \o <<"}">>

\* The key-value block writing the combined field and then visiting the keys too.
KeyValueFieldsBoth(rec, c, b) ==
  IF ~(b.kv_unstable \/ b.kv_unstable_json) THEN <<>>
  ELSE (IF b.kv_unstable_json /\ c.json /\ JsonOk(rec.kvs)
          THEN <<Field("Keys / Values", "str8", "Json", JsonText(rec.kvs))>>
          ELSE <<>>)
       \o KvVisitor(rec.kvs)

\* write_record, the key-value block of the native branch.
KeyValueFields(rec, c, b) ==
  IF ~(b.kv_unstable \/ b.kv_unstable_json) THEN <<>>
  ELSE IF b.kv_unstable_json /\ c.json
    THEN IF JsonOk(rec.kvs)
           THEN <<Field("Keys / Values", "str8", "Json", JsonText(rec.kvs))>>
           ELSE <<>>
    ELSE KvVisitor(rec.kvs)

\* write_record, File and Line with Line written whenever the record has one.
FileLineFieldsLoose(rec) ==
  (IF rec.file # None THEN <<Field("File", "str8", "Utf8", <<rec.file>>)>> ELSE <<>>)
  \o (IF rec.line # None THEN <<Field("Line", "u32", "Unsigned", <<rec.line>>)>> ELSE <<>>)

\* write_record, File and Line of the native branch.
FileLineFields(rec) ==
  IF rec.file # None
    THEN <<Field("File", "str8", "Utf8", <<rec.file>>)>>
         \o (IF rec.line # None
               THEN <<Field("Line", "u32", "Unsigned", <<rec.line>>)>>
               ELSE <<>>)
    ELSE <<>>

\* write_record, the fields of the native branch in the order they are added.
NativeFields(rec, c, b) ==
  <<Field("time", "systemtime", "DateTimeUtc", <<>>),
    Field("Payload", "str8", "Utf8", Format(rec.args))>>
  \o KeyValueFields(rec, c, b)
  \o (IF rec.module_path # None
        THEN <<Field("Module Path", "str8", "Utf8", <<rec.module_path>>)>>
        ELSE <<>>)
  \o FileLineFields(rec)

\* ------------------------------------------------------------------ common schema
\* What opentelemetry's get_active_span finds on the calling thread.
SpanStates == {"none", "invalid", "valid"}

\* The trace context with PartA declared for time alone in every build.
TraceContextMiscount(b, span) ==
  IF b.spans
    THEN [parta_field_count |-> 1,
          trace_id |-> IF span = "valid" THEN "hex" ELSE "zeroes",
          span_id |-> IF span = "valid" THEN "hex" ELSE "zeroes"]
    ELSE [parta_field_count |-> 1, trace_id |-> None, span_id |-> None]

\* write_record, the trace context of the common-schema branch: the declared
\* PartA field count and the identifiers, None when there are none to write.
TraceContext(b, span) ==
  IF b.spans
    THEN [parta_field_count |-> 2,
          trace_id |-> IF span = "valid" THEN "hex" ELSE "zeroes",
          span_id |-> IF span = "valid" THEN "hex" ELSE "zeroes"]
    ELSE [parta_field_count |-> 1, trace_id |-> None, span_id |-> None]

\* write_record, the fields of the common-schema branch in the order they are added.
CommonSchemaFields(rec, event_name, b, span) ==
  LET tc == TraceContext(b, span)
  IN <<Field("__csver__", "u16", "Signed", <<>>),
       Struct("PartA", tc.parta_field_count),
       Field("time", "str8", "Utf8", <<>>)>>
     \o (IF tc.trace_id # None
           THEN <<Struct("ext_dt", 2),
                  Field("traceId", "str8", "Utf8", <<tc.trace_id>>),
                  Field("spanId", "str8", "Utf8", <<tc.span_id>>)>>
           ELSE <<>>)
     \o <<Struct("PartB", 5),
          Field("_typeName", "str8", "Utf8", <<"Log">>),
          Field("name", "str8", "Utf8", <<event_name>>),
          Field("eventTime", "str8", "Utf8", <<>>),
          [Field("severityNumber", "u8", "Unsigned", <<>>)
            EXCEPT !.count = LevelOrdinal(rec.level)],
          Field("severityText", "str8", "Utf8", <<rec.level>>),
          Struct("PartC", 1),
          Field("Payload", "str8", "Utf8", Format(rec.args))>>


\* ------------------------------------------------------------------ write_record
EventNames == {"Event"}
SinkResults == {"ok", "err"}

\* eb.reset(event_name, level, keyword, 0); eb.opcode(Opcode::Info); the add_* calls.
Event(event_name, level, keyword, fields) ==
  [name |-> event_name, level |-> level, keyword |-> keyword, opcode |-> "Info",
   fields |-> fields]

EmptyBuilder == Event("", 0, 0, <<>>)

\* eb.reset that keeps the fields the builder holds.
EbResetKeep(old, event_name, level, keyword) ==
  [old EXCEPT !.name = event_name, !.level = level, !.keyword = keyword]

\* eb.reset(event_name, level, keyword, 0); eb.opcode(Opcode::Info): the builder
\* emptied, whatever it held.
EbReset(old, event_name, level, keyword) == Event(event_name, level, keyword, <<>>)

\* The add_* calls of one branch of write_record, in order.
EbAdd(builder, fields) == [builder EXCEPT !.fields = @ \o fields]

\* eb.write with a failure answered by a second write of the same event.
HandToSinkRetry(handed, ev, res) ==
  IF res = "err"
    THEN handed \o <<[event |-> ev, result |-> res], [event |-> ev, result |-> res]>>
    ELSE Append(handed, [event |-> ev, result |-> res])

\* The builder dropped without eb.write: nothing reaches the sink.
HandToSinkLost(handed, ev, res) == handed

\* let _ = eb.write(provider, None, None): one hand-off, its result dropped.
HandToSink(handed, ev, res) == Append(handed, [event |-> ev, result |-> res])

\* write_record with the enablement check moved after the encoding.
WriteRecordEncodeFirst(p, old, event_name, keyword, rec, c, b, span, res, sess) ==
  LET level == MapLevel(rec.level)
      on == ProviderEnabled(p, level, keyword, sess)
      fields == IF ~c.common_schema THEN NativeFields(rec, c, b)
                ELSE CommonSchemaFields(rec, event_name, b, span)
      ev == Event(event_name, level, keyword, fields)
  IN [eb |-> ev, queried |-> level, enabled |-> on, resets |-> 1,
      adds |-> Len(fields),
      handed |-> IF on THEN HandToSink(<<>>, ev, res) ELSE <<>>]

\* ProviderWrapper::write_record: what it leaves in the thread's builder, the
\* level it asked enabled() about and the answer, how often it reset the builder
\* and added a field, and what it handed to the sink.
WriteRecord(p, old, event_name, keyword, rec, c, b, span, res, sess) ==
  LET level == MapLevel(rec.level)
  IN IF ~ProviderEnabled(p, level, keyword, sess)
       THEN [eb |-> old, queried |-> level, enabled |-> FALSE, resets |-> 0,
             adds |-> 0, handed |-> <<>>]
       ELSE LET fields == IF ~c.common_schema THEN NativeFields(rec, c, b)
                          ELSE CommonSchemaFields(rec, event_name, b, span)
                ev == EbAdd(EbReset(old, event_name, level, keyword), fields)
            IN [eb |-> ev, queried |-> level, enabled |-> TRUE, resets |-> 1,
                adds |-> Len(fields), handed |-> HandToSink(<<>>, ev, res)]

\* ------------------------------------------------------------------ event-sets
\* The (level, keyword) combinations an event-set can be registered for.
Combos == {[level |-> MapLevel(l), keyword |-> k] : l \in Levels, k \in {0, 1}}

\* user_events::register_eventsets, called by ProviderWrapper::new: the
\* event-sets a new provider starts with. Which ones is not fixed here: any of
\* these families.
EventSetFamilies ==
  {{c \in Combos : c.level <= l /\ c.keyword \in ks} :
     l \in {0, TraceloggingLevel.Informational, TraceloggingLevel.Verbose + 1},
     ks \in {{0}, {0, 1}}}

\* Provider::find_set(level, keyword): whether the event-set is there.
FindSet(registered, level, keyword) ==
  [level |-> level, keyword |-> keyword] \in registered

\* Provider::register_set(level, keyword).
RegisterSet(registered, level, keyword) ==
  registered \cup {[level |-> level, keyword |-> keyword]}

\* EventSet::enabled: whether a session listens to the event-set.
EventSetListened(level, keyword, sess) ==
  sess # 0 /\ level <= sess /\ (keyword = 0 \/ keyword \in SessionKeywords)

\* enabled on the event-set backend, answering for an event-set that is not
\* registered as if it were.
EventSetEnabledUpgrading(p, registered, level, keyword, sess) ==
  p # NoProvider /\ EventSetListened(level, keyword, sess)

\* ProviderWrapper::enabled on the event-set backend: find_set, then the set's
\* enabled(); false when there is no such set.
EventSetEnabled(p, registered, level, keyword, sess) ==
  /\ p # NoProvider
  /\ IF FindSet(registered, level, keyword)
       THEN EventSetListened(level, keyword, sess)
       ELSE FALSE

\* write_record on the event-set backend: the enablement check, find_set or else
\* register_set, then the encoding and the write as on the other backend.
\* sets is the provider's event-sets afterwards.
WriteRecordSets(p, registered, old, event_name, keyword, rec, c, b, span, res, sess) ==
  LET level == MapLevel(rec.level)
  IN IF ~EventSetEnabled(p, registered, level, keyword, sess)
       THEN [eb |-> old, queried |-> level, enabled |-> FALSE, resets |-> 0,
             adds |-> 0, handed |-> <<>>, sets |-> registered]
       ELSE LET es == IF FindSet(registered, level, keyword) THEN registered
                      ELSE RegisterSet(registered, level, keyword)
                fields == IF ~c.common_schema THEN NativeFields(rec, c, b)
                          ELSE CommonSchemaFields(rec, event_name, b, span)
                \* eb.reset(event_name, 0); level and keyword are the event-set's
                ev == EbAdd(EbReset(old, event_name, level, keyword), fields)
            IN [eb |-> ev, queried |-> level, enabled |-> TRUE, resets |-> 1,
                adds |-> Len(fields), handed |-> HandToSink(<<>>, ev, res),
                sets |-> es]

\* ------------------------------------------------------------------ install
\* ExporterBuilder, as new_logger and the with_* methods build it.
NewLogger(name) ==
  [provider_name |-> name, provider_id |-> GuidFromName(name),
   provider_group |-> GroupUnset, json |-> FALSE, emit_common_schema_events |-> FALSE]
WithProviderId(b, guid) == [b EXCEPT !.provider_id = guid]
WithProviderGroup(b, group) == [b EXCEPT !.provider_group = group]

\* ProviderOptions::is_valid_option_value: lower case ASCII letters and digits.
IsValidOptionValue(group) == group = GroupLinux

\* validate_config that accepts every group.
ValidateConfigLax(b) == TRUE

\* validate_config: TRUE when it returns, FALSE when one of its assertions panics.
ValidateConfig(b) ==
  CASE b.provider_group = GroupUnset -> TRUE
    [] b.provider_group \in {GroupSet, GroupZero} -> b.provider_group # GroupZero
    [] b.provider_group \in {GroupLinux, GroupLinuxBad} ->
         IsValidOptionValue(b.provider_group)

\* No logger installed: the facade's no-op logger.
NoLogger == ExporterConfig("", <<>>, "", FALSE, FALSE)

\* The ExporterConfig install hands to EtwEventHeaderLogger::new.
ConfigOf(b) ==
  ExporterConfig(b.provider_name, b.provider_id, b.provider_group, b.json,
                 b.emit_common_schema_events)

NoInstall == [builder |-> NewLogger(""), result |-> "none"]
\* The install call that made c the logger's configuration.
Installed(c) ==
  [builder |-> [provider_name |-> c.default_provider_name,
                provider_id |-> c.default_provider_id,
                provider_group |-> c.default_provider_group, json |-> c.json,
                emit_common_schema_events |-> c.common_schema],
   result |-> "ok"]

\* ------------------------------------------------------------------ state
NoRecord == Record("", [template |-> "", arg |-> ""], <<>>, None, None, None)

\* A thread that has made no log call yet.
NoCur == [call |-> 0, rec |-> NoRecord, keyword |-> 0, passed |-> {}]

NoCall ==
  [op |-> "none", thread |-> 0, target |-> "", prov |-> NoProvider, rec |-> NoRecord,
   keyword |-> 0, span |-> "none", queried |-> 0, enabled |-> FALSE, resets |-> 0,
   adds |-> 0, handed |-> <<>>, after_failure |-> FALSE]

Names == Targets \cup {DefaultName}

InitWith(c, b, sess) ==
  /\ cfg = c
  /\ build = b
  /\ cache = [n \in Names |-> NoProvider]
  /\ created = [n \in Names |-> 0]
  /\ lockW = 0
  /\ lockR = {}
  /\ pc = [t \in Threads |-> "idle"]
  /\ target = [t \in Threads |-> ""]
  /\ prov = [t \in Threads |-> NoProvider]
  /\ session = sess
  /\ eb = [t \in Threads |-> EmptyBuilder]
  /\ last = NoCall
  /\ max_level = "Trace"
  /\ installing = Installed(c)
  /\ sets = [n \in Names |-> {}]
  /\ cur = [t \in Threads |-> NoCur]
  /\ sink = <<>>
  /\ borrow = [t \in Threads |-> "free"]

\* ------------------------------------------------------------------ get_or_create_provider, step by step
registry == <<cache, created>>
encoder == <<session, eb, last>>
facade == <<max_level, installing>>
logging == <<cur, sink>>

\* A handler calls get_or_create_provider(target).
Call(t, tgt) ==
  /\ pc[t] = "idle"
  /\ pc' = [pc EXCEPT ![t] = "read"]
  /\ target' = [target EXCEPT ![t] = tgt]
  /\ UNCHANGED <<cfg, build, sets, borrow, facade, logging, registry, lockW, lockR, prov, encoder>>

\* The read guard kept by the thread after get_provider returns.
ReadGuardKept(held, t) == held

\* get_provider: the read guard is a temporary of its one expression and is
\* dropped when it returns.
ReadGuardDropped(held, t) == held \ {t}

\* get_provider: PROVIDER_CACHE.read()
ReadLock(t) ==
  /\ pc[t] = "read"
  /\ lockW = 0
  /\ lockR' = lockR \cup {t}
  /\ pc' = [pc EXCEPT ![t] = "reading"]
  /\ UNCHANGED <<cfg, build, sets, borrow, facade, logging, registry, lockW, target, prov, encoder>>

\* get_provider: .get(provider_name).cloned(), the read guard dropped; then the
\* branch on the result.
ReadGet(t) ==
  /\ pc[t] = "reading"
  /\ LET hit == GetProvider(cache, ReadPathName(target[t], cfg))
     IN /\ prov' = [prov EXCEPT ![t] = hit]
        /\ pc' = [pc EXCEPT ![t] = IF hit # NoProvider THEN "have" ELSE "miss"]
  /\ lockR' = ReadGuardDropped(lockR, t)
  /\ UNCHANGED <<cfg, build, sets, borrow, facade, logging, registry, lockW, target, encoder>>

\* create_provider: PROVIDER_CACHE.write()
WriteLock(t) ==
  /\ pc[t] = "miss"
  /\ lockW = 0
  /\ lockR = {}
  /\ lockW' = t
  /\ pc' = [pc EXCEPT ![t] = "creating"]
  /\ UNCHANGED <<cfg, build, sets, borrow, facade, logging, registry, lockR, target, prov, encoder>>

\* create_provider under the write guard, the guard dropped on return.
Create(t) ==
  /\ pc[t] = "creating"
  /\ lockW = t
  /\ LET r == CreateProvider(cache, created, target[t], cfg)
     IN /\ cache' = r.cache
        /\ created' = r.created
        /\ prov' = [prov EXCEPT ![t] = r.prov]
  /\ lockW' = 0
  /\ pc' = [pc EXCEPT ![t] = "have"]
  /\ UNCHANGED <<cfg, build, sets, borrow, facade, logging, lockR, target, encoder>>

\* The handler is done with the provider it was given.
Return(t) ==
  /\ pc[t] = "have"
  /\ pc' = [pc EXCEPT ![t] = "idle"]
  /\ prov' = [prov EXCEPT ![t] = NoProvider]
  /\ UNCHANGED <<cfg, build, sets, borrow, facade, logging, registry, lockW, lockR, target, encoder>>

Init ==
  \E id \in {GuidFromName(DefaultName), CustomGuid}, group \in {GroupUnset, GroupSet} :
    InitWith(ExporterConfig(DefaultName, id, group, FALSE, FALSE),
             Build(FALSE, FALSE, FALSE), 0)

Next ==
  \E t \in Threads :
    \/ \E tgt \in Targets : Call(t, tgt)
    \/ ReadLock(t)
    \/ ReadGet(t)
    \/ WriteLock(t)
    \/ Create(t)
    \/ Return(t)

Spec == Init /\ [][Next]_vars

\* A thread has called PROVIDER_CACHE.write() and waits for the guard.
WriterWaiting == \E u \in Threads : pc[u] = "miss"

\* PROVIDER_CACHE.read() on a lock that is fair to writers: a reader that
\* arrives while a writer waits queues behind it.
ReadLockBehindWriters(t) ==
  /\ ~WriterWaiting
  /\ ReadLock(t)

NextFair ==
  \E t \in Threads :
    \/ \E tgt \in Targets : Call(t, tgt)
    \/ ReadLockBehindWriters(t)
    \/ ReadGet(t)
    \/ WriteLock(t)
    \/ Create(t)
    \/ Return(t)

\* Fair scheduling: a thread inside get_or_create_provider keeps running, and a
\* thread waiting for the lock gets it if the lock is free for it again and again.
Fairness ==
  \A t \in Threads :
    /\ SF_vars(ReadLockBehindWriters(t))
    /\ WF_vars(ReadGet(t))
    /\ SF_vars(WriteLock(t))
    /\ WF_vars(Create(t))

InitFair ==
  InitWith(ExporterConfig(DefaultName, GuidFromName(DefaultName), GroupUnset, FALSE, FALSE),
           Build(FALSE, FALSE, FALSE), 0)

SpecFair == InitFair /\ [][NextFair]_vars /\ Fairness


\* ------------------------------------------------------------------ the handlers, whole
\* Whether a write of the latest call or of a call before it failed.
SinkFailed(l) ==
  l.after_failure \/ \E i \in 1..Len(l.handed) : l.handed[i].result = "err"

\* Log::log: get_or_create_provider(record.target()), then write_record.
\* event_name and keyword are write_record's parameters; the call site in log
\* names neither, so they are inputs here.
LogCall(t, tgt, event_name, keyword, rec, span, res) ==
  /\ pc[t] = "idle"
  /\ lockW = 0
  /\ lockR = {}
  /\ LET g == GetOrCreateProvider(cache, created, tgt, cfg)
         w == WriteRecord(g.prov, eb[t], event_name, keyword, rec, cfg, build, span,
                          res, session)
     IN /\ cache' = g.cache
        /\ created' = g.created
        /\ eb' = [eb EXCEPT ![t] = w.eb]
        /\ last' = [op |-> "log", thread |-> t, target |-> tgt, prov |-> g.prov,
                    rec |-> rec, keyword |-> keyword, span |-> span,
                    queried |-> w.queried, enabled |-> w.enabled,
                    resets |-> w.resets, adds |-> w.adds, handed |-> w.handed,
                    after_failure |-> SinkFailed(last)]
  /\ UNCHANGED <<cfg, build, sets, borrow, facade, logging, lockW, lockR, pc, target, prov, session>>

\* Log::enabled: get_or_create_provider(metadata.target()), then
\* provider.enabled(map_level(metadata.level()), 0).
EnabledCall(t, tgt, level) ==
  /\ pc[t] = "idle"
  /\ lockW = 0
  /\ lockR = {}
  /\ LET g == GetOrCreateProvider(cache, created, tgt, cfg)
     IN /\ cache' = g.cache
        /\ created' = g.created
        /\ last' = [NoCall EXCEPT
                      !.op = "enabled", !.thread = t, !.target = tgt, !.prov = g.prov,
                      !.rec = [NoRecord EXCEPT !.level = level],
                      !.queried = MapLevel(level),
                      !.enabled = ProviderEnabled(g.prov, MapLevel(level), 0, session),
                      !.after_failure = SinkFailed(last)]
  /\ UNCHANGED <<cfg, build, sets, borrow, facade, logging, lockW, lockR, pc, target, prov, session, eb>>

\* A trace session starts, stops or changes the level it listens at.
SessionChange(level) ==
  /\ level # session
  /\ session' = level
  /\ UNCHANGED <<cfg, build, sets, borrow, facade, logging, registry, lockW, lockR, pc, target, prov, eb, last>>

\* ------------------------------------------------------------------ inputs
Args == {[template |-> "My error message: ", arg |-> "hi"]}
Locations == {None, "here"}
LineNumbers == {None, "L340"}
RecordValueKinds == {"bool", "str", "u128", "err"}

\* Key-values of up to MaxKv keys, k1, k2, ... in iteration order.
KvLists ==
  UNION {{[i \in 1..n |-> Kv(KeyNames[i], kinds[i])] : kinds \in [1..n -> RecordValueKinds]}
         : n \in 0..MaxKv}

Records ==
  {Record(level, args, kvs, m, f, l) :
     level \in Levels, args \in Args, kvs \in KvLists,
     m \in Locations, f \in Locations, l \in LineNumbers}

\* The records of SpecLog: every level with nothing optional, and one with
\* everything.
LogRecords ==
  {Record(level, args, <<>>, None, None, None) : level \in Levels, args \in Args}
  \cup {Record("Info", args, <<Kv("k1", "str")>>, "here", "here", "L340") : args \in Args}

\* Keywords a call site passes in SpecLog: none, and one no session asks for.
LogKeywords == {0, 2}

\* The thread the handlers of SpecLog and SpecEnc run on.
LogThread == CHOOSE t \in Threads : \A u \in Threads : t <= u

InitLog ==
  InitWith(ExporterConfig(DefaultName, GuidFromName(DefaultName), GroupUnset, FALSE, FALSE),
           Build(TRUE, FALSE, FALSE), 0)

NextLog ==
  \/ \E tgt \in Targets, en \in EventNames, kw \in LogKeywords, rec \in LogRecords,
        res \in SinkResults :
       LogCall(LogThread, tgt, en, kw, rec, "none", res)
  \/ \E tgt \in Targets, level \in Levels : EnabledCall(LogThread, tgt, level)
  \/ \E level \in SessionLevels : SessionChange(level)

SpecLog == InitLog /\ [][NextLog]_vars

InitEnc ==
  \E json \in BOOLEAN, cs \in BOOLEAN, kv \in BOOLEAN, kvjson \in BOOLEAN,
     spans \in BOOLEAN :
    InitWith(ExporterConfig(DefaultName, GuidFromName(DefaultName), GroupUnset, json, cs),
             Build(kv, kvjson, spans), TraceloggingLevel.Verbose + 1)

\* One log call on a fresh logger, for every record and trace context.
NextEnc ==
  /\ last = NoCall
  /\ \E en \in EventNames, rec \in Records, span \in SpanStates :
       LogCall(LogThread, "", en, 0, rec, span, "ok")

SpecEnc == InitEnc /\ [][NextEnc]_vars

\* ------------------------------------------------------------------ install, then log
\* log::LevelFilter as usize: Off below every level.
LevelFilterOrdinal(filter) == IF filter = "Off" THEN 0 ELSE LevelOrdinal(filter)

\* The builders a program installs: the default name, the generated or a custom
\* id, and every kind of provider group.
Builders ==
  {WithProviderGroup(WithProviderId(NewLogger(DefaultName), id), group) :
     id \in {GuidFromName(DefaultName), CustomGuid}, group \in ProviderGroups}

\* ExporterBuilder::install: validate_config, which panics on a bad group; then
\* log::set_boxed_logger, which keeps a logger already set and whose result is
\* dropped; then log::set_max_level(Trace).
Install(b) ==
  /\ \A t \in Threads : pc[t] = "idle"
  /\ IF ~ValidateConfig(b)
       THEN /\ installing' = [builder |-> b, result |-> "panic"]
            /\ UNCHANGED <<cfg, max_level>>
       ELSE /\ installing' = [builder |-> b, result |-> "ok"]
            /\ cfg' = IF cfg = NoLogger THEN ConfigOf(b) ELSE cfg
            /\ max_level' = "Trace"
  /\ UNCHANGED <<build, sets, borrow, logging, registry, lockW, lockR, pc, target, prov, encoder>>

\* A log macro: the record goes to the installed logger when its level passes
\* the facade's maximum level.
FacadeLog(t, tgt, event_name, keyword, rec, span, res) ==
  /\ cfg # NoLogger
  /\ LevelOrdinal(rec.level) <= LevelFilterOrdinal(max_level)
  /\ LogCall(t, tgt, event_name, keyword, rec, span, res)

InitInstall ==
  /\ cfg = NoLogger
  /\ build = Build(TRUE, FALSE, FALSE)
  /\ cache = [n \in Names |-> NoProvider]
  /\ created = [n \in Names |-> 0]
  /\ lockW = 0
  /\ lockR = {}
  /\ pc = [t \in Threads |-> "idle"]
  /\ target = [t \in Threads |-> ""]
  /\ prov = [t \in Threads |-> NoProvider]
  /\ session = TraceloggingLevel.Verbose + 1
  /\ eb = [t \in Threads |-> EmptyBuilder]
  /\ last = NoCall
  /\ max_level = "Off"
  /\ installing = NoInstall
  /\ sets = [n \in Names |-> {}]
  /\ cur = [t \in Threads |-> NoCur]
  /\ sink = <<>>
  /\ borrow = [t \in Threads |-> "free"]

NextInstall ==
  \/ \E b \in Builders : Install(b)
  \/ \E tgt \in Targets, en \in EventNames, rec \in LogRecords :
       FacadeLog(LogThread, tgt, en, 0, rec, "none", "ok")

SpecInstall == InitInstall /\ [][NextInstall]_vars


\* ------------------------------------------------------------------ the event-set backend
\* The event-sets of the providers after get_or_create_provider: a provider it
\* created starts with the family register_eventsets gives it.
SetsAfterCreate(g, family) ==
  [n \in Names |-> IF cache[n] = NoProvider /\ g.cache[n] # NoProvider
                    THEN family ELSE sets[n]]

\* Log::log on the event-set backend.
SetsLogCall(t, tgt, event_name, keyword, rec, res, family) ==
  /\ pc[t] = "idle"
  /\ LET g == GetOrCreateProvider(cache, created, tgt, cfg)
         had == SetsAfterCreate(g, family)
         w == WriteRecordSets(g.prov, had[g.prov.name], eb[t], event_name, keyword, rec,
                              cfg, build, "none", res, session)
     IN /\ cache' = g.cache
        /\ created' = g.created
        /\ sets' = [had EXCEPT ![g.prov.name] = w.sets]
        /\ eb' = [eb EXCEPT ![t] = w.eb]
        /\ last' = [op |-> "log", thread |-> t, target |-> tgt, prov |-> g.prov,
                    rec |-> rec, keyword |-> keyword, span |-> "none",
                    queried |-> w.queried, enabled |-> w.enabled,
                    resets |-> w.resets, adds |-> w.adds, handed |-> w.handed,
                    after_failure |-> SinkFailed(last)]
  /\ UNCHANGED <<cfg, build, borrow, facade, logging, lockW, lockR, pc, target, prov, session>>

\* Log::enabled on the event-set backend.
SetsEnabledCall(t, tgt, level, family) ==
  /\ pc[t] = "idle"
  /\ LET g == GetOrCreateProvider(cache, created, tgt, cfg)
         had == SetsAfterCreate(g, family)
     IN /\ cache' = g.cache
        /\ created' = g.created
        /\ sets' = had
        /\ last' = [NoCall EXCEPT
                      !.op = "enabled", !.thread = t, !.target = tgt, !.prov = g.prov,
                      !.rec = [NoRecord EXCEPT !.level = level],
                      !.queried = MapLevel(level),
                      !.enabled = EventSetEnabled(g.prov, had[g.prov.name],
                                                  MapLevel(level), 0, session),
                      !.after_failure = SinkFailed(last)]
  /\ UNCHANGED <<cfg, build, borrow, facade, logging, lockW, lockR, pc, target, prov, session, eb>>

\* The keywords a call site passes on this backend: none, and one a session asks for.
SetsKeywords == {0, 1}
\* The records logged on this backend: the message only, at three levels.
SetsLevels == {"Error", "Debug", "Trace"}
SetsRecords ==
  {Record(level, args, <<>>, None, None, None) : level \in SetsLevels, args \in Args}

\* What register_eventsets may register in a call for target tgt: one of the
\* families when the call creates a provider, nothing when it does not.
FamiliesFor(tgt) ==
  IF GetOrCreateProvider(cache, created, tgt, cfg).created # created
    THEN EventSetFamilies ELSE {{}}

NextSets ==
  \/ \E tgt \in Targets, en \in EventNames, kw \in SetsKeywords, rec \in SetsRecords :
       \E family \in FamiliesFor(tgt) :
         SetsLogCall(LogThread, tgt, en, kw, rec, "ok", family)
  \/ \E tgt \in Targets, level \in SetsLevels :
       \E family \in FamiliesFor(tgt) : SetsEnabledCall(LogThread, tgt, level, family)
  \/ \E level \in SessionLevels : SessionChange(level)

SpecSets == InitLog /\ [][NextSets]_vars

\* ------------------------------------------------------------------ threads logging, step by step
\* The records the threads log: one with a key, module path, file and line, one
\* with the message only, and one below the level the session listens at.
ThreadRecords ==
  {Record("Error", args, <<Kv("k1", "str")>>, "here", "here", "L340") : args \in Args}
  \cup {Record("Info", args, <<>>, None, None, None) : args \in Args}
  \cup {Record("Debug", args, <<>>, None, None, None) : args \in Args}
ThreadTargets == {"", "Real"}

\* The log calls made so far, by all threads.
CallsMade ==
  LET RECURSIVE Sum(_)
      Sum(T) == IF T = {} THEN 0
                ELSE LET t == CHOOSE x \in T : TRUE IN cur[t].call + Sum(T \ {t})
  IN Sum(Threads)

\* One EventBuilder for all threads.
BufferShared(t) == LogThread

\* thread_local! EBW: the EventBuilder a thread encodes into is its own.
BufferOf(t) == t

\* Log::log begins on thread t: get_or_create_provider(record.target()) is called.
LogBegin(t, tgt, rec) ==
  /\ pc[t] = "idle"
  /\ CallsMade < MaxCalls
  /\ pc' = [pc EXCEPT ![t] = "read"]
  /\ target' = [target EXCEPT ![t] = tgt]
  /\ cur' = [cur EXCEPT ![t] = [@ EXCEPT !.call = @ + 1, !.rec = rec, !.keyword = 0]]
  /\ UNCHANGED <<cfg, build, sets, borrow, facade, sink, registry, lockW, lockR, prov, encoder>>

\* write_record: the enablement check and the early return.
Check(t) ==
  /\ pc[t] = "have"
  /\ IF ProviderEnabled(prov[t], MapLevel(cur[t].rec.level), cur[t].keyword, session)
       THEN /\ pc' = [pc EXCEPT ![t] = "encode"]
            /\ cur' = [cur EXCEPT ![t].passed = @ \cup {cur[t].call}]
            /\ UNCHANGED <<prov, target>>
       ELSE /\ pc' = [pc EXCEPT ![t] = "idle"]
            /\ prov' = [prov EXCEPT ![t] = NoProvider]
            /\ cur' = [cur EXCEPT ![t].rec = NoRecord]
            /\ target' = [target EXCEPT ![t] = ""]
  /\ UNCHANGED <<cfg, build, sets, borrow, facade, sink, registry, lockW, lockR, encoder>>

\* RefCell::borrow_mut: the RefMut when no borrow is alive, a panic otherwise.
BorrowMut(state) ==
  IF state = "free" THEN [ok |-> TRUE, state |-> "held"]
  ELSE [ok |-> FALSE, state |-> state]

\* write_record: EBW.with, borrow_mut, reset and the add_* calls of the branch.
Encode(t) ==
  /\ pc[t] = "encode"
  /\ LET b == BorrowMut(borrow[BufferOf(t)])
         w == WriteRecord(prov[t], eb[BufferOf(t)], "Event", cur[t].keyword, cur[t].rec,
                          cfg, build, "none", "ok", session)
     IN IF b.ok
          THEN /\ borrow' = [borrow EXCEPT ![BufferOf(t)] = b.state]
               /\ eb' = [eb EXCEPT ![BufferOf(t)] = w.eb]
               /\ pc' = [pc EXCEPT ![t] = "write"]
          ELSE /\ pc' = [pc EXCEPT ![t] = "panicked"]
               /\ UNCHANGED <<borrow, eb>>
  /\ UNCHANGED <<cfg, build, sets, facade, logging, registry, lockW, lockR, target, prov,
                 session, last>>

\* write_record: eb.write, its result dropped; the RefMut is dropped at the end
\* of the closure and log returns.
Write(t) ==
  /\ pc[t] = "write"
  /\ sink' = HandToSink(sink, [thread |-> t, call |-> cur[t].call, rec |-> cur[t].rec,
                               event |-> eb[BufferOf(t)]], "ok")
  /\ pc' = [pc EXCEPT ![t] = "idle"]
  /\ prov' = [prov EXCEPT ![t] = NoProvider]
  /\ cur' = [cur EXCEPT ![t].rec = NoRecord]
  /\ target' = [target EXCEPT ![t] = ""]
  /\ borrow' = [borrow EXCEPT ![BufferOf(t)] = "free"]
  /\ UNCHANGED <<cfg, build, sets, facade, registry, lockW, lockR, encoder>>

InitThreads ==
  InitWith(ExporterConfig(DefaultName, GuidFromName(DefaultName), GroupUnset, FALSE, FALSE),
           Build(TRUE, FALSE, FALSE), TraceloggingLevel.Informational)

NextThreads ==
  \E t \in Threads :
    \/ \E tgt \in ThreadTargets, rec \in ThreadRecords : LogBegin(t, tgt, rec)
    \/ ReadLock(t)
    \/ ReadGet(t)
    \/ WriteLock(t)
    \/ Create(t)
    \/ Check(t)
    \/ Encode(t)
    \/ Write(t)

SpecThreads == InitThreads /\ [][NextThreads]_vars

\* ------------------------------------------------------------------ nested log calls
\* What the record's user code (the Display of record.args(), a key-value's
\* value) does when write_record runs it: nothing but produce text (NoRecord),
\* or issue a log call of its own with one of these records.
NestedRecords == {NoRecord} \cup ThreadRecords

\* write_record up to the first user code: EBW.with, borrow_mut, reset, opcode
\* and the time field. A borrow that fails panics.
Borrow(t) ==
  /\ pc[t] = "encode"
  /\ LET b == BorrowMut(borrow[BufferOf(t)])
         level == MapLevel(cur[t].rec.level)
     IN IF b.ok
          THEN /\ borrow' = [borrow EXCEPT ![BufferOf(t)] = b.state]
               /\ eb' = [eb EXCEPT ![BufferOf(t)] =
                           EbAdd(EbReset(@, "Event", level, cur[t].keyword),
                                 <<NativeFields(cur[t].rec, cfg, build)[1]>>)]
               /\ pc' = [pc EXCEPT ![t] = "format"]
          ELSE /\ pc' = [pc EXCEPT ![t] = "panicked"]
               /\ UNCHANGED <<borrow, eb>>
  /\ UNCHANGED <<cfg, build, sets, facade, logging, registry, lockW, lockR, target, prov,
                 session, last>>

\* write_record from format!("{}", record.args()) to the last add_*, the RefMut
\* of Borrow still alive. The user code it runs may call Log::log(inner) on this
\* thread: get_or_create_provider, the enablement check, and for an enabled
\* record EBW.with and borrow_mut on the same RefCell. A panic unwinds through
\* the outer write_record, which drops its RefMut.
FormatArgs(t, tgt, inner) ==
  /\ pc[t] = "format"
  /\ LET rest == Tail(NativeFields(cur[t].rec, cfg, build))
         outer == EbAdd(eb[BufferOf(t)], rest)
     IN IF inner = NoRecord
          THEN /\ eb' = [eb EXCEPT ![BufferOf(t)] = outer]
               /\ pc' = [pc EXCEPT ![t] = "write"]
               /\ UNCHANGED <<registry, borrow, sink>>
          ELSE /\ lockW = 0
               /\ lockR = {}
               /\ LET g == GetOrCreateProvider(cache, created, tgt, cfg)
                      level == MapLevel(inner.level)
                      b == BorrowMut(borrow[BufferOf(t)])
                      w == WriteRecord(g.prov, eb[BufferOf(t)], "Event", 0, inner,
                                       cfg, build, "none", "ok", session)
                  IN /\ cache' = g.cache
                     /\ created' = g.created
                     /\ IF ~ProviderEnabled(g.prov, level, 0, session)
                          THEN /\ eb' = [eb EXCEPT ![BufferOf(t)] = outer]
                               /\ pc' = [pc EXCEPT ![t] = "write"]
                               /\ UNCHANGED <<borrow, sink>>
                          ELSE IF b.ok
                            THEN /\ eb' = [eb EXCEPT ![BufferOf(t)] = EbAdd(w.eb, rest)]
                                 /\ sink' = HandToSink(sink, [thread |-> t, call |-> cur[t].call,
                                                              rec |-> inner, event |-> w.eb], "ok")
                                 /\ pc' = [pc EXCEPT ![t] = "write"]
                                 /\ UNCHANGED borrow
                            ELSE /\ pc' = [pc EXCEPT ![t] = "panicked"]
                                 /\ borrow' = [borrow EXCEPT ![BufferOf(t)] = "free"]
                                 /\ UNCHANGED <<eb, sink>>
  /\ UNCHANGED <<cfg, build, sets, facade, cur, lockW, lockR, target, prov, session, last>>

NextNested ==
  \E t \in Threads :
    \/ \E tgt \in ThreadTargets, rec \in ThreadRecords : LogBegin(t, tgt, rec)
    \/ ReadLock(t)
    \/ ReadGet(t)
    \/ WriteLock(t)
    \/ Create(t)
    \/ Check(t)
    \/ Borrow(t)
    \/ \E tgt \in ThreadTargets, inner \in NestedRecords : FormatArgs(t, tgt, inner)
    \/ Write(t)

SpecNested == InitThreads /\ [][NextNested]_vars

\* ------------------------------------------------------------------ reading the sink
HandedEvents == [i \in 1..Len(last.handed) |-> last.handed[i].event]
FieldNames(ev) == [i \in 1..Len(ev.fields) |-> ev.fields[i].name]
IsCommonSchemaEvent(ev) == Len(ev.fields) >= 1 /\ ev.fields[1].name = "__csver__"
IsNativeEvent(ev) ==
  Len(ev.fields) >= 2 /\ ev.fields[1].name = "time" /\ ev.fields[2].name = "Payload"
Positions(ev, name) == {i \in 1..Len(ev.fields) : ev.fields[i].name = name}
EnabledLog == last.op = "log" /\ last.enabled
Holding == {t \in Threads : pc[t] = "have"}

\* ------------------------------------------------------------------ C1
\* The name create_provider registers a call's provider under.
RegisteredName(tgt) == IF tgt # "" THEN tgt ELSE cfg.default_provider_name

\* So far every call, finished or not, asked for the provider of target tgt.
OnlyCallsFor(tgt) ==
  /\ \A n \in Names \ {RegisteredName(tgt)} : cache[n] = NoProvider
  /\ \A t \in Threads : pc[t] # "idle" => RegisteredName(target[t]) = RegisteredName(tgt)

\* C1: under every interleaving of the threads, ProviderWrapper::new runs at most
\* once per name; a provider handed to a caller is the one instance the registry
\* holds under its name, so two callers given a provider of one name share it; and
\* while every call so far asked for one name, every caller is given the instance
\* registered under that name.
C1_OneProviderPerName ==
  /\ \A n \in Names : created[n] <= 1
  /\ \A n \in Names : cache[n] # NoProvider => cache[n].name = n /\ created[n] = 1
  /\ \A t \in Holding : prov[t] # NoProvider /\ prov[t] = cache[prov[t].name]
  /\ \A t1, t2 \in Holding : prov[t1].name = prov[t2].name => prov[t1] = prov[t2]
  /\ \A tgt \in Targets :
       OnlyCallsFor(tgt) => \A t \in Holding : prov[t] = cache[RegisteredName(tgt)]

\* Two threads missed on the read path for one name; one has created and holds
\* the provider, the other has the write guard and is about to look again.
C1_Witness ==
  \E t1, t2 \in Threads :
    /\ pc[t1] = "have" /\ pc[t2] = "creating"
    /\ target[t1] = "Real" /\ target[t2] = "Real"
    /\ OnlyCallsFor("Real")
    /\ prov[t1] = cache["Real"] /\ created["Real"] = 1

\* ------------------------------------------------------------------ C2
\* C2: a log call with a non-empty target T leaves an entry keyed T in the
\* registry and writes through the provider registered under T, whatever calls
\* came before.
C2_TargetOverridesDefault ==
  (last.op = "log" /\ last.target # "") =>
    /\ cache[last.target] # NoProvider
    /\ last.prov = cache[last.target]
    /\ last.prov.name = last.target

\* ------------------------------------------------------------------ C3
\* C3: a log call whose (level, keyword) the provider is not enabled for resets
\* no builder, adds no field and hands nothing to the sink.
C3_DisabledDoesNothing ==
  (last.op = "log" /\ ~last.enabled) =>
    last.resets = 0 /\ last.adds = 0 /\ last.handed = <<>>

\* A call refused for its level by a listening session, on a thread whose
\* builder still holds an earlier event.
C3_Witness ==
  /\ last.op = "log" /\ ~last.enabled
  /\ session # 0 /\ last.queried > session
  /\ last.prov # NoProvider
  /\ eb[last.thread] # EmptyBuilder

\* ------------------------------------------------------------------ C4
\* C4: with common-schema events configured an enabled log call hands the sink
\* the native event and the common-schema event; without, the native event only.
C4_CommonSchemaInAddition ==
  EnabledLog =>
    IF cfg.common_schema
      THEN /\ \E i \in 1..Len(last.handed) : IsNativeEvent(HandedEvents[i])
           /\ \E i \in 1..Len(last.handed) : IsCommonSchemaEvent(HandedEvents[i])
      ELSE /\ Len(last.handed) = 1
           /\ IsNativeEvent(HandedEvents[1])

\* ------------------------------------------------------------------ C5
\* C5: a common-schema event declares 2 PartA fields and carries ext_dt with
\* traceId and spanId exactly when a span with a valid id is active; otherwise it
\* declares 1, carries no ext_dt and no zeroed identifier.
C5_PartAFollowsSpan ==
  \A i \in 1..Len(last.handed) :
    LET ev == HandedEvents[i]
    IN IsCommonSchemaEvent(ev) =>
         /\ ev.fields[2].name = "PartA"
         /\ IF last.span = "valid"
              THEN /\ ev.fields[2].count = 2
                   /\ Positions(ev, "ext_dt") # {}
                   /\ Positions(ev, "traceId") # {}
                   /\ Positions(ev, "spanId") # {}
              ELSE /\ ev.fields[2].count = 1
                   /\ Positions(ev, "ext_dt") = {}
                   /\ Positions(ev, "traceId") = {}
                   /\ Positions(ev, "spanId") = {}


\* ------------------------------------------------------------------ C6
\* The fields that end a native event of record rec: Module Path, File, Line.
TrailingNames(rec) ==
  (IF rec.module_path # None THEN <<"Module Path">> ELSE <<>>)
  \o (IF rec.file # None THEN <<"File">> ELSE <<>>)
  \o (IF rec.file # None /\ rec.line # None THEN <<"Line">> ELSE <<>>)

\* The keys of kvs in iteration order.
KeysOf(kvs) == [i \in 1..Len(kvs) |-> kvs[i].key]

\* names holds key-value fields of kvs: the one combined field, or keys of kvs
\* in their iteration order.
IsKeyValueNames(names, kvs) ==
  \/ names = <<"Keys / Values">> /\ kvs # <<>>
  \/ \E pick \in SUBSET (1..Len(kvs)) :
       names = KeysOf(SelectSeq([i \in 1..Len(kvs) |-> [key |-> kvs[i].key, at |-> i]],
                                LAMBDA e : e.at \in pick))

\* C6: a native event's fields are time, Payload, the key-value fields, Module
\* Path if present, File if present, Line, in this order, with nothing written
\* for what is absent: a record with no key-values, module path or file gives
\* exactly time, Payload.
C6_NativeFieldOrder ==
  (EnabledLog /\ ~cfg.common_schema) =>
    /\ Len(last.handed) = 1
    /\ LET names == FieldNames(HandedEvents[1])
           tail == TrailingNames(last.rec)
           n == Len(names)
       IN /\ n >= 2 + Len(tail)
          /\ SubSeq(names, 1, 2) = <<"time", "Payload">>
          /\ SubSeq(names, n - Len(tail) + 1, n) = tail
          /\ IsKeyValueNames(SubSeq(names, 3, n - Len(tail)), last.rec.kvs)

\* ------------------------------------------------------------------ C7
\* C7: a native event has a Line field exactly when the record has both a file
\* and a line, and then Line comes right after File; with no file there is
\* neither File nor Line.
C7_LineOnlyWithFile ==
  \A i \in 1..Len(last.handed) :
    LET ev == HandedEvents[i]
        files == Positions(ev, "File")
        lines == Positions(ev, "Line")
    IN IsNativeEvent(ev) =>
         /\ (lines # {}) <=> (last.rec.file # None /\ last.rec.line # None)
         /\ (files # {}) <=> (last.rec.file # None)
         /\ Cardinality(files) <= 1 /\ Cardinality(lines) <= 1
         /\ \A l \in lines : l - 1 \in files
         /\ \A l \in lines : l = Len(ev.fields)

\* A native event of a record that has a line and no file.
C7_Witness ==
  /\ EnabledLog /\ Len(last.handed) = 1
  /\ IsNativeEvent(HandedEvents[1])
  /\ last.rec.file = None /\ last.rec.line # None
  /\ Positions(HandedEvents[1], "Line") = {}

\* ------------------------------------------------------------------ C8
\* The level table: Error, Warning, Informational, Verbose, Verbose + 1.
NativeLevelTable ==
  [Error |-> TraceloggingLevel.Error, Warn |-> TraceloggingLevel.Warning,
   Info |-> TraceloggingLevel.Informational, Debug |-> TraceloggingLevel.Verbose,
   Trace |-> TraceloggingLevel.Verbose + 1]

\* C8: map_level follows the level table, rising strictly with the facade's
\* verbosity, and the level a call asks enabled() about and the level in the
\* header of the event it hands over are the table's value for its record's level.
C8_LevelTable ==
  /\ \A l \in Levels : MapLevel(l) = NativeLevelTable[l]
  /\ \A i, j \in 1..Len(FacadeLevels) :
       i < j => MapLevel(FacadeLevels[i]) < MapLevel(FacadeLevels[j])
  /\ last.op # "none" =>
       /\ last.queried = NativeLevelTable[last.rec.level]
       /\ \A i \in 1..Len(last.handed) :
            HandedEvents[i].level = NativeLevelTable[last.rec.level]

\* A Trace record written while a Debug call would be written too: one past Verbose.
C8_Witness ==
  /\ EnabledLog /\ last.rec.level = "Trace"
  /\ Len(last.handed) = 1
  /\ HandedEvents[1].level = TraceloggingLevel.Verbose + 1
  /\ session >= TraceloggingLevel.Verbose + 1

\* ------------------------------------------------------------------ C9
\* The keys visited one by one: the build has key-values and the JSON payload
\* is not in use.
VisitedPerKey == (build.kv_unstable \/ build.kv_unstable_json)
                 /\ ~(build.kv_unstable_json /\ cfg.json)

\* The keys of kvs whose value visits without an error, in iteration order.
GoodKeys(kvs) == KeysOf(SelectSeq(kvs, LAMBDA kv : kv.kind # "err"))

\* C9: when keys are visited one by one, the fields after Payload are the keys
\* whose visit reported no error, each once and in iteration order, then Module
\* Path, File and Line as the record has them, and the event is handed over once.
C9_FailedKeyAlone ==
  (EnabledLog /\ ~cfg.common_schema /\ VisitedPerKey) =>
    /\ Len(last.handed) = 1
    /\ FieldNames(HandedEvents[1]) =
         <<"time", "Payload">> \o GoodKeys(last.rec.kvs) \o TrailingNames(last.rec)

\* The first key fails, the second is written, and Module Path, File and Line follow.
C9_Witness ==
  /\ EnabledLog /\ ~cfg.common_schema /\ VisitedPerKey
  /\ Len(last.rec.kvs) = 2
  /\ last.rec.kvs[1].kind = "err" /\ last.rec.kvs[2].kind # "err"
  /\ last.rec.module_path # None /\ last.rec.file # None /\ last.rec.line # None
  /\ Len(last.handed) = 1
  /\ FieldNames(HandedEvents[1]) = <<"time", "Payload", "k2", "Module Path", "File", "Line">>

\* ------------------------------------------------------------------ C10
\* C10: a failed write is handed over once and never again: an enabled log call,
\* also one after a failure, resets the builder once and hands the sink one
\* event, the one it has just encoded; a disabled one hands over nothing.
C10_WriteFailureDropped ==
  last.op = "log" =>
    /\ IF last.enabled
         THEN /\ last.resets = 1
              /\ Len(last.handed) = 1
              /\ HandedEvents[1] = eb[last.thread]
              /\ \E i \in 1..Len(HandedEvents[1].fields) :
                   HandedEvents[1].fields[i] =
                     Field("Payload", "str8", "Utf8", Format(last.rec.args))
         ELSE last.handed = <<>>

\* After a failed write, a later log call is written and succeeds.
C10_Witness ==
  /\ EnabledLog /\ last.after_failure
  /\ Len(last.handed) = 1
  /\ last.handed[1].result = "ok"

\* ------------------------------------------------------------------ C11
\* The groups validate_config refuses: the all-zero GUID and a group name
\* outside the backend's naming rules.
RefusedGroups == {GroupZero, GroupLinuxBad}

\* C11: install on a builder whose group is the all-zero GUID, or a name the
\* backend refuses, panics in validate_config and leaves the global logger, the
\* maximum level and the registry as they were: no provider is created.
C11_BadGroupRejected ==
  [][\A b \in Builders :
       (Install(b) /\ b.provider_group \in RefusedGroups) =>
         /\ installing'.result = "panic"
         /\ UNCHANGED <<cfg, max_level, cache, created>>]_vars

\* An install with the all-zero group has panicked and the process has no
\* logger, the facade's level is still Off and the registry is empty.
C11_Witness ==
  /\ installing.result = "panic"
  /\ installing.builder.provider_group = GroupZero
  /\ cfg = NoLogger /\ max_level = "Off"
  /\ \A n \in Names : cache[n] = NoProvider /\ created[n] = 0

\* ------------------------------------------------------------------ C12
\* What thread t handed to the sink, in the order the sink got it.
SinkOf(t) == SelectSeq(sink, LAMBDA e : e.event.thread = t)
CallsIn(entries) == [i \in 1..Len(entries) |-> entries[i].event.call]

\* The enabled calls of thread t that came before the one it is in now, or all
\* of them when it is in none.
EarlierEnabled(t) ==
  {m \in cur[t].passed : m < cur[t].call \/ pc[t] = "idle"}

\* C12: on each thread a log call's event is in the sink before the thread's
\* next call starts: whenever a thread is in a call, every enabled call it made
\* before has its event in the sink, once, and the sink holds a thread's events
\* in the order of its calls. Nothing is required between threads.
C12_ThreadOrder ==
  \A t \in Threads :
    LET calls == CallsIn(SinkOf(t))
    IN /\ \A i, j \in 1..Len(calls) : i < j => calls[i] < calls[j]
       /\ \A m \in EarlierEnabled(t) : \E i \in 1..Len(calls) : calls[i] = m
       /\ \A i \in 1..Len(calls) : calls[i] \in cur[t].passed

\* A thread has encoded its second enabled call and is about to hand it over;
\* its first is in the sink, behind an event of another thread.
C12_Witness ==
  \E t, u \in Threads :
    /\ t # u
    /\ pc[t] = "write" /\ cur[t].call = 2 /\ cur[t].passed = {1, 2}
    /\ Len(sink) = 2
    /\ sink[1].event.thread = u /\ sink[2].event.thread = t
    /\ sink[2].event.call = 1

\* ------------------------------------------------------------------ C13
\* C13: the provider the registry holds under the default provider name has the
\* configured id and the configured group, whichever targets were logged first.
C13_DefaultProviderIdentity ==
  LET p == cache[cfg.default_provider_name]
  IN p # NoProvider =>
       /\ p.id = cfg.default_provider_id
       /\ p.group = cfg.default_provider_group

\* ------------------------------------------------------------------ C14
\* The event-set the latest call asked about.
LastCombo == [level |-> last.queried, keyword |-> last.keyword]

\* The latest call asked about an event-set its provider has not registered.
AskedUnregistered ==
  /\ last.op \in {"log", "enabled"}
  /\ last.prov # NoProvider
  /\ LastCombo \notin sets[last.prov.name]

\* C14: on the event-set backend no enablement check and no log call changes
\* the event-sets of a provider the registry holds, and a call about a
\* combination with no registered event-set is answered disabled: it hands
\* nothing to the sink and the combination stays unregistered.
C14_NoAutoRegistration ==
  [][/\ \A n \in Names : cache[n] # NoProvider => sets'[n] = sets[n]
     /\ (AskedUnregistered => (~last.enabled /\ last.handed = <<>>))']_vars

\* A log call at a level and keyword a session listens to, on a provider with
\* other event-sets but none for this combination: not written, none registered.
C14_Witness ==
  /\ last.op = "log" /\ AskedUnregistered
  /\ EventSetListened(last.queried, last.keyword, session)
  /\ sets[last.prov.name] # {}
  /\ ~last.enabled /\ last.handed = <<>>

\* ------------------------------------------------------------------ C15
\* Where event ev has the combined field, and where it has a field named by a key.
CombinedPositions(ev) == Positions(ev, "Keys / Values")
PerKeyPositions(ev) ==
  {i \in 1..Len(ev.fields) : \E k \in 1..Len(KeyNames) : ev.fields[i].name = KeyNames[k]}

\* The JSON payload is configured and the build has the feature that writes it.
JsonInEffect == build.kv_unstable_json /\ cfg.json

RECURSIVE SkipField(_, _), SkipFields(_, _, _), ChildStarts(_, _, _), TopStarts(_, _)
\* The position after field i and all it owns; past the end when fields are missing.
SkipField(fields, i) ==
  IF i > Len(fields) THEN Len(fields) + 2
  ELSE IF fields[i].type = "struct" THEN SkipFields(fields, i + 1, fields[i].count)
  ELSE i + 1
SkipFields(fields, i, n) ==
  IF n = 0 THEN i ELSE SkipFields(fields, SkipField(fields, i), n - 1)
\* Where the n fields owned from position i on start.
ChildStarts(fields, i, n) ==
  IF n = 0 THEN <<>> ELSE <<i>> \o ChildStarts(fields, SkipField(fields, i), n - 1)
\* Where the fields no struct owns start.
TopStarts(fields, i) ==
  IF i > Len(fields) THEN <<>> ELSE <<i>> \o TopStarts(fields, SkipField(fields, i))

NamesAt(fields, starts) ==
  [k \in 1..Len(starts) |->
     IF starts[k] <= Len(fields) THEN fields[starts[k]].name ELSE "missing"]

\* The names of the fields the struct called name owns, as declared by its count.
ChildNames(ev, name) ==
  LET i == CHOOSE j \in Positions(ev, name) : TRUE
  IN NamesAt(ev.fields, ChildStarts(ev.fields, i + 1, ev.fields[i].count))

\* C16: read by the declared counts, a common-schema event is __csver__, PartA,
\* PartB, PartC; PartA owns time and, when written, ext_dt, which owns traceId
\* and spanId; PartB owns its five fields and PartC owns Payload; every count
\* equals the number of fields written under its struct.
C16_StructCounts ==
  \A i \in 1..Len(last.handed) :
    LET ev == HandedEvents[i]
    IN IsCommonSchemaEvent(ev) =>
         /\ NamesAt(ev.fields, TopStarts(ev.fields, 1))
              = <<"__csver__", "PartA", "PartB", "PartC">>
         /\ ChildNames(ev, "PartA")
              = <<"time">> \o (IF Positions(ev, "ext_dt") # {} THEN <<"ext_dt">> ELSE <<>>)
         /\ Positions(ev, "ext_dt") # {} => ChildNames(ev, "ext_dt") = <<"traceId", "spanId">>
         /\ ChildNames(ev, "PartB")
              = <<"_typeName", "name", "eventTime", "severityNumber", "severityText">>
         /\ ChildNames(ev, "PartC") = <<"Payload">>

\* A common-schema event of a build with spans: PartA declares 2 and ext_dt
\* follows time.
C16_Witness ==
  /\ EnabledLog /\ cfg.common_schema /\ build.spans
  /\ Len(last.handed) = 1
  /\ IsCommonSchemaEvent(HandedEvents[1])
  /\ HandedEvents[1].fields[2] = Struct("PartA", 2)
  /\ HandedEvents[1].fields[4] = Struct("ext_dt", 2)

\* ------------------------------------------------------------------ C17
\* C17: no step of any thread removes a registry entry or puts another
\* instance in its place, and no registration is undone: a name that maps to a
\* provider maps to the same provider after every step.
C17_RegistryOnlyGrows ==
  [][\A n \in Names :
       /\ cache[n] # NoProvider => cache'[n] = cache[n]
       /\ created'[n] >= created[n]]_vars

\* Both names are registered and a thread that missed on the read path is under
\* the write guard, about to look again.
C17_Witness ==
  /\ cache["Real"] # NoProvider /\ cache[DefaultName] # NoProvider
  /\ \E t \in Threads : pc[t] = "creating" /\ cache[RegisteredName(target[t])] # NoProvider

FreshEvent(rec) == Event("Event", MapLevel(rec.level), 0, NativeFields(rec, cfg, build))

\* C19: every event in the sink has the fields of the record of its own call
\* and no other, and a thread about to hand its event over has exactly that
\* event in its builder: nothing is left from the thread's earlier events and
\* nothing comes from another thread's call.
C19_OwnBufferFreshEvent ==
  /\ \A i \in 1..Len(sink) : sink[i].event.event = FreshEvent(sink[i].event.rec)
  /\ \A t \in Threads : pc[t] = "write" => eb[t] = FreshEvent(cur[t].rec)

\* A thread wrote a record with a key, module path, file and line and then one
\* with the message only, while another thread has encoded a record of its own
\* and not yet handed it over.
C19_Witness ==
  \E t, u \in Threads :
    /\ t # u
    /\ pc[u] = "write" /\ Len(eb[u].fields) > 2
    /\ Len(SinkOf(t)) = 2
    /\ Len(SinkOf(t)[1].event.event.fields) > 2
    /\ FieldNames(SinkOf(t)[2].event.event) = <<"time", "Payload">>

\* ------------------------------------------------------------------ C20
\* C20: the read path looks up the name the write path inserts under, so a
\* lookup under the read guard for a target whose provider is registered is
\* answered with that provider and the thread does not go on to the write guard.
C20_ReadPathAnswers ==
  [][\A t \in Threads :
       (pc[t] = "reading" /\ pc'[t] # "reading") =>
         /\ ReadPathName(target[t], cfg) = CreateIdentity(target[t], cfg).name
         /\ cache[RegisteredName(target[t])] # NoProvider =>
              /\ pc'[t] = "have"
              /\ prov'[t] = cache[RegisteredName(target[t])]]_vars


\* ---- C21
\* C21: a thread never tries to take exclusive access to its scratch buffer
\* while it already holds it: every log call, also one issued on the same
\* thread by the user code an outer write_record runs while formatting the
\* message or visiting key-values, gets the buffer and returns without a panic.
C21_BorrowNeverPanics == \A t \in Threads : pc[t] # "panicked"

====
